---------------------------- MODULE Spec2Model ----------------------------
(***************************************************************************)
(* A model of the daedalus metadata library:                               *)
(*   - lib.rs     : BRANDING, set_branding, download_file_mirrors,         *)
(*                  download_file, get_hash                                *)
(*   - minecraft.rs : merge_partial_library                                *)
(*   - modded.rs    : merge_partial_version                                *)
(* The fetch functions are modelled as one caller stepping through the     *)
(* await points of the async code, with the network, the client builder    *)
(* and the blocking-task pool as nondeterministic environments.  The merge *)
(* functions are pure and are modelled as operators applied to inputs      *)
(* drawn from bounded sets.                                                *)
(***************************************************************************)
EXTENDS Integers, Sequences, FiniteSets, TLC

VARIABLES
    pc,             \* position of the caller: idle, enter, send, body, hash, done, panic
    fn,             \* the public function that was called
    base,           \* download_file_mirrors: the relative path
    mirrors,        \* download_file_mirrors: the mirror prefixes
    sha1,           \* Option<&str>: the expected digest
    url,            \* download_file: the url being fetched
    index,          \* download_file_mirrors: loop index (0-based, as in the code)
    attempt,        \* download_file: loop variable of `for attempt in 1..=4`
    bytes,          \* download_file: body read in the current attempt
    outcomes,       \* how each attempt of the current download_file call ended, in order
    requests,       \* every GET issued so far, in order (the url of each)
    mirror_results, \* the value download_file returned for each mirror tried so far
    result,         \* Option<Result<..>>: what the public call returned
    BRANDING,       \* the process-wide OnceCell<Branding>
    set_oks,        \* number of set_branding calls that returned Ok so far
    last_set,       \* Option<Result<(), Error>>: what the latest set_branding call returned
    op,             \* merge scenario: which merge function is applied
    in_partial,     \* merge scenario: the argument `partial` (the overlay)
    in_merge,       \* merge scenario: the argument `merge` (the base)
    merged          \* merge scenario: Option of the returned record

vars == <<pc, fn, base, mirrors, sha1, url, index, attempt, bytes, outcomes,
          requests, mirror_results, result, BRANDING, set_oks, last_set,
          op, in_partial, in_merge, merged>>

fetch_vars == <<pc, fn, base, mirrors, sha1, url, index, attempt, bytes, outcomes,
                requests, mirror_results, result, BRANDING, set_oks, last_set>>

merge_vars == <<op, in_partial, in_merge, merged>>

(***************************************************************************)
(* Option<T> and Result<T, Error>                                          *)
(***************************************************************************)
None == [some |-> FALSE]

Some(x) == [some |-> TRUE, val |-> x]

Ok(b) == [ok |-> TRUE, bytes |-> b]

Err(e) == [ok |-> FALSE, err |-> e]

ChecksumFailure(h, u, t) == [kind |-> "ChecksumFailure", hash |-> h, url |-> u, tries |-> t]

FetchError(i, u) == [kind |-> "FetchError", inner |-> i, item |-> u]

TaskError == [kind |-> "TaskError"]

ParseError(msg) == [kind |-> "ParseError", msg |-> msg]

BrandingAlreadySet == [kind |-> "BrandingAlreadySet"]

\* A reqwest::Error value: where it arose and after how many GETs.
TransportError(src, n) == [source |-> src, req |-> n]

(***************************************************************************)
(* Bounds of the model                                                     *)
(***************************************************************************)
MaxMirrors == 2

\* Longest list (rules, libraries, arguments of one kind) in a merge input.
MaxVec == 2

(***************************************************************************)
(* Branding                                                                *)
(***************************************************************************)
CARGO_PKG_VERSION == "CARGO_PKG_VERSION"

Branding_new(name, email) ==
    [header_value |-> name \o "/daedalus/" \o CARGO_PKG_VERSION \o " <" \o email \o ">",
     dummy_replace_string |-> "${" \o name \o ".gameVersion}"]

Branding_default == Branding_new("unbranded", "unbranded")

\* OnceCell::get_or_init: the cell after the call.
get_or_init(cell, init) == IF cell.some THEN cell ELSE Some(init)

\* Variant: a set that replaces the value the cell holds.
set_overwrites(cell, v) == Some(v)

\* OnceCell::set: the cell after the call.
OnceCell_set(cell, v) == IF cell.some THEN cell ELSE Some(v)

AppBrandings == {Branding_new("app", "app@example.org")}

(***************************************************************************)
(* get_hash: SHA-1 of the body, rendered as lowercase hex                  *)
(***************************************************************************)
Bodies == {"hello", "world"}

\* sha1::Sha1::from(bytes): the 20 bytes of the digest.
Sha1(b) ==
    CASE b = "hello" ->
           <<170, 244, 198, 29, 220, 197, 232, 162, 218, 190,
             222, 15, 59, 72, 44, 217, 174, 169, 67, 77>>
      [] b = "world" ->
           <<124, 33, 20, 51, 240, 32, 113, 89, 119, 65,
             230, 255, 90, 142, 163, 71, 137, 171, 191, 67>>
      [] b = "" ->
           <<218, 57, 163, 238, 94, 107, 75, 13, 50, 85,
             191, 239, 149, 96, 24, 144, 175, 216, 7, 9>>

HexDigit(n) ==
    CASE n = 0 -> "0" [] n = 1 -> "1" [] n = 2 -> "2" [] n = 3 -> "3"
      [] n = 4 -> "4" [] n = 5 -> "5" [] n = 6 -> "6" [] n = 7 -> "7"
      [] n = 8 -> "8" [] n = 9 -> "9" [] n = 10 -> "a" [] n = 11 -> "b"
      [] n = 12 -> "c" [] n = 13 -> "d" [] n = 14 -> "e" [] n = 15 -> "f"

HexDigitUpper(n) ==
    CASE n = 10 -> "A" [] n = 11 -> "B" [] n = 12 -> "C"
      [] n = 13 -> "D" [] n = 14 -> "E" [] n = 15 -> "F"
      [] OTHER -> HexDigit(n)

RECURSIVE HexOf(_, _)
HexOf(digest, upper) ==
    IF digest = <<>> THEN ""
    ELSE LET b == Head(digest)
             hi == b \div 16
             lo == b % 16
         IN  (IF upper THEN HexDigitUpper(hi) ELSE HexDigit(hi))
             \o (IF upper THEN HexDigitUpper(lo) ELSE HexDigit(lo))
             \o HexOf(Tail(digest), upper)

\* Variant: the digest rendered in upper case.
hexdigest_upper(digest) == HexOf(digest, TRUE)

hexdigest(digest) == HexOf(digest, FALSE)

\* The value get_hash yields when the blocking task completes.
get_hash(b) == hexdigest(Sha1(b))

\* Expected digests a caller may pass: the digest of one of the bodies, as
\* get_hash renders it and written in upper case.
Digests == {HexOf(Sha1("hello"), FALSE), HexOf(Sha1("hello"), TRUE)}

Sha1Args == {None} \cup {Some(d) : d \in Digests}

(***************************************************************************)
(* Inputs of the fetch functions                                           *)
(***************************************************************************)
Mirrors == {"https://m1/", "https://m2/"}

Bases == {"v1/manifest.json"}

Urls == {"https://m1/v1/manifest.json"}

MirrorLists == UNION {[1..n -> Mirrors] : n \in 0..MaxMirrors}

MAX_ATTEMPTS == 4

(***************************************************************************)
(* download_file and download_file_mirrors                                 *)
(***************************************************************************)
\* Variants of the retry guard: one attempt fewer, and no retry at all.
\* Variant: a loop that goes on after any failure.
MayRetryAlways(a) == TRUE

MayRetryTwice(a) == a <= 2

NoRetry(a) == FALSE

\* `attempt <= 3`: the guard of every `continue` in download_file.
MayRetry(a) == a <= 3

\* Variant: the comparison inverted.
DigestDiffers(b, expected) == get_hash(b) # expected

\* `&*get_hash(bytes.clone()).await? != sha1`, negated.
DigestMatches(b, expected) == get_hash(b) = expected

\* Variant: a separator put between the prefix and the path.
MirrorUrlSlash(mirror, b) == mirror \o "/" \o b

\* `format!("{}{}", mirror, base)`
MirrorUrl(mirror, b) == mirror \o b

\* Variant: the check of the mirror list left out.
never_empty(ms) == FALSE

\* `mirrors.is_empty()`
is_empty(ms) == Len(ms) = 0

\* Variant: the first mirror's result returned whatever it is.
ReturnsAnyResult(res, i, ms) == TRUE

\* `result.is_ok() || (result.is_err() && index == (mirrors.len() - 1))`
MirrorReturns(res, i, ms) == res.ok \/ (~res.ok /\ i = Len(ms) - 1)

\* download_file returns `res` to its caller.  Called directly, that is the
\* result of the call; called from download_file_mirrors, the loop over the
\* mirrors either returns it or goes on to the next mirror.
DfReturn(res) ==
    IF fn = "download_file"
    THEN /\ result' = Some(res)
         /\ pc' = "done"
         /\ UNCHANGED <<index, url, mirror_results>>
    ELSE /\ mirror_results' = Append(mirror_results, res)
         /\ IF MirrorReturns(res, index, mirrors)
            THEN /\ result' = Some(res)
                 /\ pc' = "done"
                 /\ UNCHANGED <<index, url>>
            ELSE IF index + 1 < Len(mirrors)
            THEN /\ index' = index + 1
                 /\ url' = MirrorUrl(mirrors[index + 2], base)
                 /\ pc' = "enter"
                 /\ UNCHANGED result
            ELSE \* the loop over the mirrors ran out: unreachable!()
                 /\ pc' = "panic"
                 /\ UNCHANGED <<index, url, result>>

\* Variant: a failure of the hashing task treated as one more failed attempt.
FinishRetriesTask(kind, res) ==
    IF kind = "task" /\ MayRetry(attempt)
    THEN /\ outcomes' = Append(outcomes, kind)
         /\ attempt' = attempt + 1
         /\ pc' = "send"
         /\ UNCHANGED <<index, url, mirror_results, result>>
    ELSE /\ outcomes' = Append(outcomes, kind)
         /\ attempt' = attempt
         /\ DfReturn(res)

\* The last attempt of download_file ends as `kind` and the call returns `res`.
Finish(kind, res) ==
    /\ outcomes' = Append(outcomes, kind)
    /\ attempt' = attempt
    /\ DfReturn(res)

\* `continue` in the loop `for attempt in 1..=4`, after a failure of `kind`.
Continue(kind) ==
    /\ outcomes' = Append(outcomes, kind)
    /\ bytes' = None
    /\ IF attempt < MAX_ATTEMPTS
       THEN /\ attempt' = attempt + 1
            /\ pc' = "send"
       ELSE \* the loop ran out: unreachable!()
            /\ attempt' = attempt
            /\ pc' = "panic"
    /\ UNCHANGED <<index, url, mirror_results, result>>

\* The caller calls download_file(u, s).
CallDownloadFile(u, s) ==
    /\ pc = "idle"
    /\ fn' = "download_file"
    /\ url' = u
    /\ sha1' = s
    /\ pc' = "enter"
    /\ UNCHANGED <<base, mirrors, index, attempt, bytes, outcomes, requests,
                   mirror_results, result, BRANDING, set_oks, last_set>>
    /\ UNCHANGED merge_vars

\* The caller calls download_file_mirrors(b, ms, s): the check of the mirror
\* list and the entry into the loop over the mirrors, up to the first
\* iteration's call of download_file.
CallDownloadFileMirrors(b, ms, s) ==
    /\ pc = "idle"
    /\ fn' = "download_file_mirrors"
    /\ base' = b
    /\ mirrors' = ms
    /\ sha1' = s
    /\ IF is_empty(ms)
       THEN /\ result' = Some(Err(ParseError("No mirrors provided!")))
            /\ pc' = "done"
            /\ UNCHANGED <<index, url>>
       ELSE IF 0 < Len(ms)
       THEN /\ index' = 0
            /\ url' = MirrorUrl(ms[1], b)
            /\ pc' = "enter"
            /\ UNCHANGED result
       ELSE \* a loop over no mirror: unreachable!()
            /\ pc' = "panic"
            /\ UNCHANGED <<index, url, result>>
    /\ UNCHANGED <<attempt, bytes, outcomes, requests, mirror_results,
                   BRANDING, set_oks, last_set>>
    /\ UNCHANGED merge_vars

\* download_file up to its loop: the user-agent header is read from BRANDING
\* (initialising it with the default when it is unset) and the client is
\* built; a client that cannot be built is a FetchError.
Enter ==
    /\ pc = "enter"
    /\ BRANDING' = get_or_init(BRANDING, Branding_default)
    /\ bytes' = None
    /\ \E built \in BOOLEAN :
          IF built
          THEN /\ attempt' = 1
               /\ outcomes' = <<>>
               /\ pc' = "send"
               /\ UNCHANGED <<index, url, mirror_results, result>>
          ELSE /\ attempt' = 0
               /\ outcomes' = <<>>
               /\ DfReturn(Err(FetchError(TransportError("build", Len(requests)), url)))
    /\ UNCHANGED <<fn, base, mirrors, sha1, requests, set_oks, last_set>>
    /\ UNCHANGED merge_vars

\* `client.get(url).send().await` and the match on its result.
Send ==
    /\ pc = "send"
    /\ requests' = Append(requests, url)
    /\ \E sent \in BOOLEAN :
          IF sent
          THEN /\ pc' = "body"
               /\ UNCHANGED <<attempt, bytes, outcomes, index, url, mirror_results, result>>
          ELSE IF MayRetry(attempt)
          THEN Continue("send")
          ELSE /\ Finish("send", Err(FetchError(TransportError("send", Len(requests')), url)))
               /\ UNCHANGED bytes
    /\ UNCHANGED <<fn, base, mirrors, sha1, BRANDING, set_oks, last_set>>
    /\ UNCHANGED merge_vars

\* `x.bytes().await`: the body is read, or reading it fails.
ReadBody ==
    /\ pc = "body"
    /\ \/ \E b \in Bodies :
             /\ bytes' = Some(b)
             /\ IF sha1.some
                THEN /\ pc' = "hash"
                     /\ UNCHANGED <<attempt, outcomes, index, url, mirror_results, result>>
                ELSE Finish("ok", Ok(b))
       \/ IF MayRetry(attempt)
          THEN Continue("bytes")
          ELSE /\ Finish("bytes", Err(FetchError(TransportError("bytes", Len(requests)), url)))
               /\ UNCHANGED bytes
    /\ UNCHANGED <<fn, base, mirrors, sha1, requests, BRANDING, set_oks, last_set>>
    /\ UNCHANGED merge_vars

\* `get_hash(bytes.clone()).await?` and the comparison with the expected
\* digest: the blocking task is joined, or joining it fails (TaskError).
Hash ==
    /\ pc = "hash"
    /\ \E joined \in BOOLEAN :
          IF ~joined
          THEN /\ Finish("task", Err(TaskError))
               /\ UNCHANGED bytes
          ELSE IF ~DigestMatches(bytes.val, sha1.val)
          THEN IF MayRetry(attempt)
               THEN Continue("mismatch")
               ELSE /\ Finish("mismatch", Err(ChecksumFailure(sha1.val, url, attempt)))
                    /\ UNCHANGED bytes
          ELSE /\ Finish("ok", Ok(bytes.val))
               /\ UNCHANGED bytes
    /\ UNCHANGED <<fn, base, mirrors, sha1, requests, BRANDING, set_oks, last_set>>
    /\ UNCHANGED merge_vars

\* Branding::set_branding(b), called by any thread at any time.
SetBranding(b) ==
    /\ BRANDING' = OnceCell_set(BRANDING, b)
    /\ IF BRANDING.some
       THEN /\ last_set' = Some(Err(BrandingAlreadySet))
            /\ set_oks' = set_oks
       ELSE /\ last_set' = Some([ok |-> TRUE])
            /\ set_oks' = set_oks + 1
    /\ UNCHANGED <<pc, fn, base, mirrors, sha1, url, index, attempt, bytes, outcomes,
                   requests, mirror_results, result>>
    /\ UNCHANGED merge_vars

MergeIdle ==
    /\ op = "none"
    /\ in_partial = None
    /\ in_merge = None
    /\ merged = None

FetchIdle ==
    /\ pc = "idle"
    /\ fn = "none"
    /\ base = ""
    /\ mirrors = <<>>
    /\ sha1 = None
    /\ url = ""
    /\ index = 0
    /\ attempt = 0
    /\ bytes = None
    /\ outcomes = <<>>
    /\ requests = <<>>
    /\ mirror_results = <<>>
    /\ result = None

\* The fetch functions are called either before any branding was configured
\* or after the application configured its own.
Init ==
    /\ FetchIdle
    /\ \/ /\ BRANDING = None
          /\ set_oks = 0
          /\ last_set = None
       \/ \E b \in AppBrandings :
             /\ BRANDING = Some(b)
             /\ set_oks = 1
             /\ last_set = Some([ok |-> TRUE])
    /\ MergeIdle

Next ==
    \/ \E u \in Urls, s \in Sha1Args : CallDownloadFile(u, s)
    \/ \E b \in Bases, ms \in MirrorLists, s \in Sha1Args : CallDownloadFileMirrors(b, ms, s)
    \/ Enter
    \/ Send
    \/ ReadBody
    \/ Hash

Spec == Init /\ [][Next]_vars

\* The same caller, with other threads calling set_branding at any moment.
NextBranding ==
    \/ Next
    \/ \E b \in AppBrandings : SetBranding(b)

SpecBranding == Init /\ [][NextBranding]_vars

(***************************************************************************)
(* Properties of download_file and download_file_mirrors                   *)
(***************************************************************************)
\* What a direct call of download_file has come to.
Returned == fn = "download_file" /\ pc = "done"

\* n requests, all of them to u.
Repeated(u, n) == [i \in 1..n |-> u]

\* The lowercase-hex SHA-1 of a body, computed apart from the code's comparison.
LowerHexSha1(b) == HexOf(Sha1(b), FALSE)

Transient == {"send", "bytes", "mismatch"}

\* C1: a download_file call with an expected digest whose attempts all ended
\* in a digest mismatch has returned ChecksumFailure with the expected hash,
\* the url and tries = 4, after exactly 4 GET requests to the url.
C1_ChecksumFailureAfterFourMismatches ==
    (/\ Returned
     /\ sha1.some
     /\ outcomes # <<>>
     /\ \A i \in DOMAIN outcomes : outcomes[i] = "mismatch")
    => /\ result = Some(Err(ChecksumFailure(sha1.val, url, 4)))
       /\ requests = Repeated(url, 4)

C1_Witness ==
    /\ Returned
    /\ sha1.some
    /\ outcomes = <<"mismatch", "mismatch", "mismatch", "mismatch">>
    /\ result.val.err.kind = "ChecksumFailure"

\* C2: when the call has returned and its last attempt, the k-th, read a body
\* while no digest was expected or the body's digest is the expected one
\* (and the hashing task completed), then the attempts before it all ended
\* in a transient failure, the call returned exactly that body, and exactly
\* k GET requests were issued, all to the url.
C2_FirstGoodBodyIsReturned ==
    (/\ Returned
     /\ bytes.some
     /\ outcomes # <<>>
     /\ outcomes[Len(outcomes)] # "task"
     /\ (sha1.some => LowerHexSha1(bytes.val) = sha1.val))
    => /\ result = Some(Ok(bytes.val))
       /\ Len(outcomes) = attempt
       /\ attempt \in 1..4
       /\ \A i \in 1..(attempt - 1) : outcomes[i] \in Transient
       /\ requests = Repeated(url, attempt)

C2_Witness ==
    /\ Returned
    /\ sha1.some
    /\ outcomes = <<"send", "bytes", "mismatch", "ok">>
    /\ result = Some(Ok("hello"))
    /\ Len(requests) = 4

\* C3: a send failure or a body-read failure is returned to the caller only
\* by the 4th attempt, as FetchError with the url as item and that attempt's
\* transport error as inner, after exactly 4 GET requests; on attempts 1..3
\* the call goes on with the next attempt on the same url.
C3_TransportFailureRetriedThenReturned ==
    fn = "download_file" =>
      /\ \A i \in DOMAIN outcomes :
            (i <= 3 /\ outcomes[i] \in {"send", "bytes"})
            => /\ Len(outcomes) > i \/ (pc \in {"send", "body", "hash"} /\ attempt = i + 1)
               /\ Len(outcomes) = i
                     => /\ ~result.some
                        /\ requests \in {Repeated(url, i), Repeated(url, i + 1)}
      /\ (Len(outcomes) = 4 /\ outcomes[4] \in {"send", "bytes"})
            => /\ pc = "done"
               /\ result = Some(Err(FetchError(TransportError(outcomes[4], 4), url)))
               /\ requests = Repeated(url, 4)
      /\ (pc = "done" /\ ~result.val.ok /\ result.val.err.kind = "FetchError"
          /\ result.val.err.inner.source # "build")
            => Len(outcomes) = 4

C3_Witness ==
    /\ Returned
    /\ outcomes = <<"send", "bytes", "send", "bytes">>
    /\ result = Some(Err(FetchError(TransportError("bytes", 4), url)))

\* C4: bytes returned by download_file or download_file_mirrors under an
\* expected digest have that digest as their lowercase-hex SHA-1, whichever
\* attempt or mirror produced them.
C4_ReturnedBytesHaveExpectedDigest ==
    sha1.some =>
      /\ (result.some /\ result.val.ok) => LowerHexSha1(result.val.bytes) = sha1.val
      /\ \A k \in DOMAIN mirror_results :
            mirror_results[k].ok => LowerHexSha1(mirror_results[k].bytes) = sha1.val

C4_Witness ==
    /\ fn = "download_file_mirrors"
    /\ pc = "done"
    /\ sha1.some
    /\ index = 1
    /\ outcomes = <<"mismatch", "ok">>
    /\ result.val.ok

\* C5: download_file_mirrors called with no mirror has returned the error
\* saying that no mirrors were provided, and no request was issued.
C5_NoMirrorsIsAnError ==
    (fn = "download_file_mirrors" /\ mirrors = <<>>)
    => /\ pc = "done"
       /\ result = Some(Err(ParseError("No mirrors provided!")))
       /\ requests = <<>>
       /\ mirror_results = <<>>

C5_Witness ==
    /\ fn = "download_file_mirrors"
    /\ mirrors = <<>>
    /\ result.some
    /\ result.val.err.kind = "ParseError"

\* Every GET of download_file_mirrors goes to the current mirror's prefix
\* directly followed by the path, and is issued only when download_file has
\* returned an error for every earlier mirror.
C6_RequestStep ==
    (fn = "download_file_mirrors" /\ requests' # requests)
    => /\ requests' = Append(requests, mirrors[index + 1] \o base)
       /\ Len(mirror_results) = index
       /\ \A k \in 1..index : ~mirror_results[k].ok

\* After a mirror succeeded no other mirror is contacted; and with two mirrors,
\* the first failing on all its attempts and the second succeeding at once, the
\* requests are 4 to the first and then 1 to the second.
C6_RequestState ==
    fn = "download_file_mirrors" =>
      /\ \A k \in DOMAIN mirror_results :
            mirror_results[k].ok => (pc = "done" /\ k = Len(mirror_results) /\ index = k - 1)
      /\ (/\ pc = "done"
          /\ Len(mirrors) = 2
          /\ Len(mirror_results) = 2
          /\ mirror_results[1].err.kind \in {"FetchError", "ChecksumFailure"}
          /\ mirror_results[1].err.kind = "FetchError" => mirror_results[1].err.inner.source # "build"
          /\ mirror_results[2].ok
          /\ attempt = 1)
         => requests = Repeated(mirrors[1] \o base, 4) \o <<mirrors[2] \o base>>

\* C6: download_file_mirrors contacts the mirrors strictly in list order, one
\* after the other, and none after a success.
C6_MirrorsInOrder == [](C6_RequestState) /\ [][C6_RequestStep]_vars

C6_Witness ==
    /\ fn = "download_file_mirrors"
    /\ pc = "done"
    /\ mirrors = <<"https://m1/", "https://m2/">>
    /\ result.val.ok
    /\ requests = Repeated("https://m1/v1/manifest.json", 4) \o <<"https://m2/v1/manifest.json">>

\* C7: for a non-empty mirror list, download_file_mirrors returns what
\* download_file returned for the first mirror that succeeded, or, when none
\* did, what it returned for the last mirror of the list.
C7_FirstSuccessOrLastError ==
    (fn = "download_file_mirrors" /\ pc = "done" /\ mirrors # <<>>)
    => /\ mirror_results # <<>>
       /\ Len(mirror_results) <= Len(mirrors)
       /\ result = Some(mirror_results[Len(mirror_results)])
       /\ \A k \in 1..(Len(mirror_results) - 1) : ~mirror_results[k].ok
       /\ ~result.val.ok => Len(mirror_results) = Len(mirrors)

C7_Witness ==
    /\ fn = "download_file_mirrors"
    /\ pc = "done"
    /\ Len(mirrors) = 2
    /\ Len(mirror_results) = 2
    /\ mirror_results[1].err.kind = "ChecksumFailure"
    /\ mirror_results[2].err.kind = "TaskError"
    /\ result = Some(Err(TaskError))

(***************************************************************************)
(* Collections: Vec, HashMap and iterators                                 *)
(***************************************************************************)
EmptyMap == [k \in {} |-> k]

\* Variant: the value of an existing key is kept.
insert_if_absent(map, k, v) == [x \in DOMAIN map \cup {k} |-> IF x \in DOMAIN map THEN map[x] ELSE v]

\* HashMap::insert: the value of an existing key is replaced.
insert(map, k, v) == [x \in DOMAIN map \cup {k} |-> IF x = k THEN v ELSE map[x]]

\* HashMap::into_iter: the entries, each once, in an order the map does not
\* specify.  The set of the sequences an iteration can yield: every
\* permutation of the entries.
into_iter(map) ==
    LET entries == {<<k, map[k]>> : k \in DOMAIN map}
    IN  {s \in [1..Cardinality(DOMAIN map) -> entries] :
            \A i, j \in DOMAIN s : i # j => s[i] # s[j]}

\* `for entry in entries { map.insert(entry.0, entry.1); }`
RECURSIVE insert_each(_, _)
insert_each(map, entries) ==
    IF entries = <<>> THEN map
    ELSE insert_each(insert(map, Head(entries)[1], Head(entries)[2]), Tail(entries))

\* Variant: the elements put in front of the list.
push_front_each(vec, items) == items \o vec

\* `for item in items { vec.push(item); }`
RECURSIVE push_each(_, _)
push_each(vec, items) ==
    IF items = <<>> THEN vec
    ELSE push_each(Append(vec, Head(items)), Tail(items))

\* Variant: the two iterators chained the other way round.
chain_reversed(first, second) == second \o first

\* Iterator::chain: the items of `first`, then those of `second`.
chain(first, second) == first \o second

\* Iterator::collect into a HashMap: every item inserted, in order.
collect_map(iter) == insert_each(EmptyMap, iter)

\* Iterator::collect into a Vec.
collect_vec(iter) == push_each(<<>>, iter)

(***************************************************************************)
(* merge_partial_library (minecraft.rs)                                    *)
(***************************************************************************)
\* Variant: the field taken from the overlay whether it has it or not.
always_overlay(p, m) == p

\* `if let Some(x) = partial.x { merge.x = Some(x) }`, for an optional field.
overwrite_option(p, m) == IF p.some THEN Some(p.val) ELSE m

\* Variant: the base's value kept whatever the overlay has.
keep_base_value(p, m) == m

\* `if let Some(x) = partial.x { merge.x = x }`, for a required field; also
\* `if let Some(x) = partial.x { x } else { merge.x }`.
overwrite_value(p, m) == IF p.some THEN p.val ELSE m

\* Variant: the overlay's downloads adopted whole.
adopt_overlay_downloads(pd, md) == {pd}

\* The overlay's downloads `pd` merged into the base's downloads `md`: the
\* set of the results, one for every order in which the overlay's
\* classifiers can be iterated.
merge_downloads(pd, md) ==
    LET artifact == overwrite_option(pd.artifact, md.artifact)
    IN  IF pd.classifiers.some
        THEN IF md.classifiers.some
             THEN {[artifact |-> artifact,
                    classifiers |-> Some(insert_each(md.classifiers.val, classifiers))] :
                      classifiers \in into_iter(pd.classifiers.val)}
             ELSE {[artifact |-> artifact, classifiers |-> Some(pd.classifiers.val)]}
        ELSE {[artifact |-> artifact, classifiers |-> md.classifiers]}

\* The set of the libraries the call can return, one for every order in
\* which the overlay's maps can be iterated.
merge_partial_library(partial, merge) ==
    LET downloads ==
            IF partial.downloads.some
            THEN IF merge.downloads.some
                 THEN {Some(d) : d \in merge_downloads(partial.downloads.val,
                                                       merge.downloads.val)}
                 ELSE {Some(partial.downloads.val)}
            ELSE {merge.downloads}
        extract == overwrite_option(partial.extract, merge.extract)
        name == overwrite_value(partial.name, merge.name)
        url_ == overwrite_option(partial.url, merge.url)
        natives ==
            IF partial.natives.some
            THEN IF merge.natives.some
                 THEN {Some(insert_each(merge.natives.val, entries)) :
                         entries \in into_iter(partial.natives.val)}
                 ELSE {Some(partial.natives.val)}
            ELSE {merge.natives}
        rules ==
            IF partial.rules.some
            THEN IF merge.rules.some
                 THEN Some(push_each(merge.rules.val, partial.rules.val))
                 ELSE Some(partial.rules.val)
            ELSE merge.rules
        checksums == overwrite_option(partial.checksums, merge.checksums)
        include_in_classpath ==
            overwrite_value(partial.include_in_classpath, merge.include_in_classpath)
    IN  {[downloads |-> d,
          extract |-> extract,
          name |-> name,
          url |-> url_,
          natives |-> n,
          rules |-> rules,
          checksums |-> checksums,
          include_in_classpath |-> include_in_classpath] :
            d \in downloads, n \in natives}

(***************************************************************************)
(* merge_partial_version (modded.rs)                                       *)
(***************************************************************************)
\* The set of the versions the call can return, one for every order in
\* which the two argument maps can be iterated.
merge_partial_version(partial, merge) ==
    LET arguments ==
            IF partial.arguments.some
            THEN IF merge.arguments.some
                 THEN {Some(collect_map(chain(partial_args, merge_args))) :
                         partial_args \in into_iter(partial.arguments.val),
                         merge_args \in into_iter(merge.arguments.val)}
                 ELSE {Some(partial.arguments.val)}
            ELSE {merge.arguments}
    IN
    {[arguments |-> a,
     asset_index |-> merge.asset_index,
     assets |-> merge.assets,
     downloads |-> merge.downloads,
     id |-> partial.id,
     libraries |-> collect_vec(chain(partial.libraries, merge.libraries)),
     main_class |-> overwrite_value(partial.main_class, merge.main_class),
     minecraft_arguments |-> merge.minecraft_arguments,
     minimum_launcher_version |-> merge.minimum_launcher_version,
     release_time |-> partial.release_time,
     time |-> partial.time,
     type_ |-> partial.type_] : a \in arguments}

(***************************************************************************)
(* Inputs of the merge functions                                           *)
(***************************************************************************)
Opt(S) == {None} \cup {Some(x) : x \in S}

\* Every map with keys among K and values in V.
Maps(K, V) == UNION {[D -> V] : D \in SUBSET K}

\* Every list over S of at most n elements.
Vecs(S, n) == UNION {[1..k -> S] : k \in 0..n}

LibraryDownloadValues ==
    {[path |-> "a.jar", sha1 |-> "aa", size |-> 1, url |-> "https://m1/a.jar"],
     [path |-> "b.jar", sha1 |-> "bb", size |-> 2, url |-> "https://m2/b.jar"]}

LibraryDownloadsValues ==
    [artifact : Opt(LibraryDownloadValues),
     classifiers : Opt(Maps({"natives-linux", "natives-osx"}, LibraryDownloadValues))]

RuleValues ==
    {[action |-> "allow", os |-> None, features |-> None],
     [action |-> "disallow",
      os |-> Some([name |-> Some("osx"), version |-> None, arch |-> None]),
      features |-> None]}

LibraryExtractValues == {[exclude |-> None], [exclude |-> Some(<<"META-INF/">>)]}

NameValues == {"org.lwjgl:lwjgl:3.2.2", "net.fabricmc:fabric-loader:0.14.0"}

UrlValues == {"https://libraries.minecraft.net/", "https://maven.fabricmc.net/"}

NativesValues == Maps({"linux", "osx"}, {"natives-linux", "natives-macos"})

ChecksumsValues == {<<"aa">>, <<"bb", "cc">>}

\* The values each field of a Library may take.
LibraryField(f) ==
    CASE f = "downloads" -> Opt(LibraryDownloadsValues)
      [] f = "extract" -> Opt(LibraryExtractValues)
      [] f = "name" -> NameValues
      [] f = "url" -> Opt(UrlValues)
      [] f = "natives" -> Opt(NativesValues)
      [] f = "rules" -> Opt(Vecs(RuleValues, MaxVec))
      [] f = "checksums" -> Opt(ChecksumsValues)
      [] f = "include_in_classpath" -> BOOLEAN

\* The values each field of a PartialLibrary may take.
PartialLibraryField(f) ==
    CASE f = "name" -> Opt(NameValues)
      [] f = "include_in_classpath" -> Opt(BOOLEAN)
      [] OTHER -> LibraryField(f)

LibraryFields ==
    {"downloads", "extract", "name", "url", "natives", "rules", "checksums",
     "include_in_classpath"}

\* A library with every optional field absent, and one with every one present.
LibraryBare ==
    [downloads |-> None, extract |-> None, name |-> "org.lwjgl:lwjgl:3.2.2", url |-> None,
     natives |-> None, rules |-> None, checksums |-> None, include_in_classpath |-> TRUE]

LibraryFull ==
    [downloads |-> Some([artifact |-> Some([path |-> "a.jar", sha1 |-> "aa", size |-> 1,
                                             url |-> "https://m1/a.jar"]),
                         classifiers |-> Some(EmptyMap)]),
     extract |-> Some([exclude |-> None]),
     name |-> "net.fabricmc:fabric-loader:0.14.0",
     url |-> Some("https://maven.fabricmc.net/"),
     natives |-> Some(EmptyMap),
     rules |-> Some(<<[action |-> "allow", os |-> None, features |-> None]>>),
     checksums |-> Some(<<"aa">>),
     include_in_classpath |-> FALSE]

PartialLibraryBare ==
    [LibraryBare EXCEPT !.name = None, !.include_in_classpath = None]

PartialLibraryFull ==
    [LibraryFull EXCEPT !.name = Some("org.lwjgl:lwjgl:3.2.2"),
                        !.include_in_classpath = Some(TRUE)]

\* The base libraries: each of the two above with one field taking every value.
Libraries ==
    UNION {{[l EXCEPT ![f] = v] : l \in {LibraryBare, LibraryFull}, v \in LibraryField(f)}
           : f \in LibraryFields}

\* The overlay libraries, likewise.
PartialLibraries ==
    UNION {{[l EXCEPT ![f] = v] : l \in {PartialLibraryBare, PartialLibraryFull},
                                 v \in PartialLibraryField(f)}
           : f \in LibraryFields}

ArgumentValues == {"--demo", "-Xss1M"}

ArgumentsValues == Maps({"game", "jvm"}, Vecs(ArgumentValues, MaxVec))

LibrariesValues == Vecs({LibraryBare, LibraryFull}, MaxVec)

TimeValues == {"2019-01-01T00:00:00Z", "2022-06-07T09:42:18Z"}

\* The values each field of a VersionInfo may take.
VersionField(f) ==
    CASE f = "arguments" -> Opt(ArgumentsValues)
      [] f = "asset_index" -> {[id |-> "1.18", sha1 |-> "aa"], [id |-> "1.19", sha1 |-> "bb"]}
      [] f = "assets" -> {"1.18", "1.19"}
      [] f = "downloads" -> Maps({"client"}, {"https://m1/client.jar", "https://m2/client.jar"})
      [] f = "id" -> {"1.19", "fabric-loader-0.14.0-1.19"}
      [] f = "libraries" -> LibrariesValues
      [] f = "main_class" -> {"net.minecraft.client.main.Main", "net.fabricmc.loader.Knot"}
      [] f = "minecraft_arguments" -> Opt({"--username ${auth_player_name}"})
      [] f = "minimum_launcher_version" -> {14, 21}
      [] f = "release_time" -> TimeValues
      [] f = "time" -> TimeValues
      [] f = "type_" -> {"release", "snapshot"}

VersionFields ==
    {"arguments", "asset_index", "assets", "downloads", "id", "libraries", "main_class",
     "minecraft_arguments", "minimum_launcher_version", "release_time", "time", "type_"}

\* The values each field of a PartialVersionInfo may take.
PartialVersionField(f) ==
    CASE f = "main_class" -> Opt(VersionField("main_class"))
      [] f = "inherits_from" -> {"1.18", "1.19"}
      [] f = "data" -> {None}
      [] f = "processors" -> {None}
      [] OTHER -> VersionField(f)

PartialVersionFields ==
    {"id", "inherits_from", "release_time", "time", "main_class", "arguments",
     "libraries", "type_", "data", "processors"}

VersionBase ==
    [arguments |-> Some([k \in {"game"} |-> <<"--demo">>]),
     asset_index |-> [id |-> "1.19", sha1 |-> "bb"],
     assets |-> "1.19",
     downloads |-> [k \in {"client"} |-> "https://m1/client.jar"],
     id |-> "1.19",
     libraries |-> <<LibraryBare>>,
     main_class |-> "net.minecraft.client.main.Main",
     minecraft_arguments |-> None,
     minimum_launcher_version |-> 21,
     release_time |-> "2022-06-07T09:42:18Z",
     time |-> "2022-06-07T09:42:18Z",
     type_ |-> "release"]

PartialVersionBase ==
    [id |-> "fabric-loader-0.14.0-1.19",
     inherits_from |-> "1.19",
     release_time |-> "2019-01-01T00:00:00Z",
     time |-> "2019-01-01T00:00:00Z",
     main_class |-> Some("net.fabricmc.loader.Knot"),
     arguments |-> Some([k \in {"jvm"} |-> <<"-Xss1M">>]),
     libraries |-> <<LibraryFull>>,
     type_ |-> "snapshot",
     data |-> None,
     processors |-> None]

\* The base versions: the one above with one field taking every value.
Versions ==
    UNION {{[VersionBase EXCEPT ![f] = v] : v \in VersionField(f)} : f \in VersionFields}

\* The overlay versions, likewise.
PartialVersions ==
    UNION {{[PartialVersionBase EXCEPT ![f] = v] : v \in PartialVersionField(f)}
           : f \in PartialVersionFields}

(***************************************************************************)
(* The merge scenario: one call of a merge function on chosen arguments    *)
(***************************************************************************)
MergePartialLibrary ==
    /\ op = "merge_partial_library"
    /\ ~merged.some
    /\ \E lib \in merge_partial_library(in_partial, in_merge) : merged' = Some(lib)
    /\ UNCHANGED <<op, in_partial, in_merge>>
    /\ UNCHANGED fetch_vars

MergePartialVersion ==
    /\ op = "merge_partial_version"
    /\ ~merged.some
    /\ \E version \in merge_partial_version(in_partial, in_merge) : merged' = Some(version)
    /\ UNCHANGED <<op, in_partial, in_merge>>
    /\ UNCHANGED fetch_vars

InitMerge ==
    /\ FetchIdle
    /\ BRANDING = None
    /\ set_oks = 0
    /\ last_set = None
    /\ merged = None
    /\ \/ /\ op = "merge_partial_library"
          /\ in_partial \in PartialLibraries
          /\ in_merge \in Libraries
       \/ /\ op = "merge_partial_version"
          /\ in_partial \in PartialVersions
          /\ in_merge \in Versions

NextMerge ==
    \/ MergePartialLibrary
    \/ MergePartialVersion

SpecMerge == InitMerge /\ [][NextMerge]_vars

(***************************************************************************)
(* Properties of merge_partial_library and merge_partial_version           *)
(***************************************************************************)
MergedLibrary == op = "merge_partial_library" /\ merged.some

MergedVersion == op = "merge_partial_version" /\ merged.some

\* C8 as stated: when the overlay and the base both have rules, the result's
\* rules are the overlay's followed by the base's; when one side only has
\* rules, they are that side's, unchanged.
C8_RulesOverlayFirst ==
    MergedLibrary =>
      merged.val.rules =
        IF in_partial.rules.some /\ in_merge.rules.some
        THEN Some(in_partial.rules.val \o in_merge.rules.val)
        ELSE IF in_partial.rules.some THEN in_partial.rules ELSE in_merge.rules

\* C8 as amended: when the overlay and the base both have rules, the
\* result's rules are the base's, in their order, followed by the overlay's,
\* in their order; when one side only has rules, they are that side's,
\* unchanged.
C8_RulesBaseFirst ==
    MergedLibrary =>
      merged.val.rules =
        IF in_partial.rules.some /\ in_merge.rules.some
        THEN Some(in_merge.rules.val \o in_partial.rules.val)
        ELSE IF in_partial.rules.some THEN in_partial.rules ELSE in_merge.rules

C8_Witness ==
    /\ MergedLibrary
    /\ in_partial.rules.some
    /\ in_merge.rules.some
    /\ Len(in_partial.rules.val) = 2
    /\ Len(in_merge.rules.val) = 1
    /\ in_partial.rules.val[1] # in_merge.rules.val[1]
    /\ merged.val.rules.val[1] = in_merge.rules.val[1]

\* C9: when the overlay and the base both have arguments, the result's keys
\* are those of either, a kind present in both holds the overlay's list, and
\* a kind present in one holds that one's list.
C9_ArgumentsOverlayWins ==
    (MergedVersion /\ in_partial.arguments.some /\ in_merge.arguments.some)
    => LET p == in_partial.arguments.val
           m == in_merge.arguments.val
           r == merged.val.arguments.val
       IN  /\ merged.val.arguments.some
           /\ DOMAIN r = DOMAIN p \cup DOMAIN m
           /\ \A k \in DOMAIN r : r[k] = IF k \in DOMAIN p THEN p[k] ELSE m[k]

\* C10: the result's libraries are the overlay's, in their order, followed by
\* the base's, in their order, whatever the two lists.
C10_LibrariesOverlayFirst ==
    MergedVersion =>
      LET p == in_partial.libraries
          m == in_merge.libraries
          r == merged.val.libraries
      IN  /\ Len(r) = Len(p) + Len(m)
          /\ \A i \in 1..Len(p) : r[i] = p[i]
          /\ \A i \in 1..Len(m) : r[Len(p) + i] = m[i]

C10_Witness ==
    /\ MergedVersion
    /\ in_partial.libraries = <<LibraryFull, LibraryBare>>
    /\ in_merge.libraries = <<LibraryBare>>
    /\ merged.val.libraries = <<LibraryFull, LibraryBare, LibraryBare>>

\* The key-union of two maps in which the overlay's value wins.
UnionOverlayWins(p, m) ==
    [k \in DOMAIN p \cup DOMAIN m |-> IF k \in DOMAIN p THEN p[k] ELSE m[k]]

\* What the key-union rule gives for an optional map of the overlay and of the base.
OptionUnion(p, m) ==
    IF p.some /\ m.some THEN Some(UnionOverlayWins(p.val, m.val))
    ELSE IF p.some THEN p ELSE m

\* The classifiers of a library's downloads, if it has any.
ClassifiersOf(l) == IF l.downloads.some THEN l.downloads.val.classifiers ELSE None

SameOptionMap(a, b) ==
    /\ a.some = b.some
    /\ a.some => /\ DOMAIN a.val = DOMAIN b.val
                 /\ \A k \in DOMAIN a.val : a.val[k] = b.val[k]

\* C11: natives and downloads.classifiers of the result follow the key-union
\* rule: with the map on both sides the keys are those of either, a key of
\* both has the overlay's value and a key of the base alone the base's; with
\* the map on one side only, it is that map.
C11_MapsAreKeyUnioned ==
    MergedLibrary =>
      /\ SameOptionMap(merged.val.natives, OptionUnion(in_partial.natives, in_merge.natives))
      /\ SameOptionMap(ClassifiersOf(merged.val),
                       OptionUnion(ClassifiersOf(in_partial), ClassifiersOf(in_merge)))

C11_Witness ==
    /\ MergedLibrary
    /\ ClassifiersOf(in_partial).some
    /\ ClassifiersOf(in_merge).some
    /\ DOMAIN ClassifiersOf(in_partial).val = {"natives-linux"}
    /\ DOMAIN ClassifiersOf(in_merge).val = {"natives-linux", "natives-osx"}
    /\ ClassifiersOf(in_partial).val["natives-linux"] # ClassifiersOf(in_merge).val["natives-linux"]
    /\ ClassifiersOf(merged.val).val["natives-linux"] = ClassifiersOf(in_partial).val["natives-linux"]
    /\ ClassifiersOf(merged.val).val["natives-osx"] = ClassifiersOf(in_merge).val["natives-osx"]

\* C12: name, url, extract, checksums and include_in_classpath of the result
\* are the overlay's where the overlay has the field and the base's
\* otherwise; an overlay with no field returns the base unchanged; the
\* result always has a name.
C12_FieldsOverlayElseBase ==
    MergedLibrary =>
      /\ merged.val.name = (IF in_partial.name.some THEN in_partial.name.val ELSE in_merge.name)
      /\ merged.val.name \in NameValues
      /\ merged.val.url = (IF in_partial.url.some THEN in_partial.url ELSE in_merge.url)
      /\ merged.val.extract =
           (IF in_partial.extract.some THEN in_partial.extract ELSE in_merge.extract)
      /\ merged.val.checksums =
           (IF in_partial.checksums.some THEN in_partial.checksums ELSE in_merge.checksums)
      /\ merged.val.include_in_classpath =
           (IF in_partial.include_in_classpath.some
            THEN in_partial.include_in_classpath.val
            ELSE in_merge.include_in_classpath)
      /\ (\A f \in LibraryFields : ~in_partial[f].some) => merged.val = in_merge

C12_Witness ==
    /\ MergedLibrary
    /\ in_partial.name.some
    /\ in_partial.name.val # in_merge.name
    /\ ~in_partial.url.some
    /\ in_merge.url.some
    /\ merged.val.name = in_partial.name.val
    /\ merged.val.url = in_merge.url

\* C13: without downloads on the overlay the result has the base's downloads;
\* with downloads on the overlay and none on the base it has the overlay's;
\* with downloads on both, its artifact is the overlay's artifact if the
\* overlay has one, whole, and the base's otherwise.
C13_DownloadsNested ==
    MergedLibrary =>
      /\ ~in_partial.downloads.some => merged.val.downloads = in_merge.downloads
      /\ (in_partial.downloads.some /\ ~in_merge.downloads.some)
            => merged.val.downloads = in_partial.downloads
      /\ (in_partial.downloads.some /\ in_merge.downloads.some)
            => /\ merged.val.downloads.some
               /\ merged.val.downloads.val.artifact =
                    (IF in_partial.downloads.val.artifact.some
                     THEN in_partial.downloads.val.artifact
                     ELSE in_merge.downloads.val.artifact)

C13_Witness ==
    /\ MergedLibrary
    /\ in_partial.downloads.some
    /\ in_merge.downloads.some
    /\ ~in_partial.downloads.val.artifact.some
    /\ in_partial.downloads.val.classifiers.some
    /\ in_merge.downloads.val.artifact.some
    /\ merged.val.downloads.val.artifact = in_merge.downloads.val.artifact

\* C14: id, time, release_time and type of the result are the overlay's;
\* main_class is the overlay's if it has one and the base's otherwise;
\* asset_index, assets, downloads, minecraft_arguments and
\* minimum_launcher_version are the base's.
C14_VersionFields ==
    MergedVersion =>
      /\ merged.val.id = in_partial.id
      /\ merged.val.time = in_partial.time
      /\ merged.val.release_time = in_partial.release_time
      /\ merged.val.type_ = in_partial.type_
      /\ merged.val.main_class =
           (IF in_partial.main_class.some THEN in_partial.main_class.val ELSE in_merge.main_class)
      /\ merged.val.asset_index = in_merge.asset_index
      /\ merged.val.assets = in_merge.assets
      /\ merged.val.downloads = in_merge.downloads
      /\ merged.val.minecraft_arguments = in_merge.minecraft_arguments
      /\ merged.val.minimum_launcher_version = in_merge.minimum_launcher_version

C14_Witness ==
    /\ MergedVersion
    /\ in_partial.main_class.some
    /\ in_partial.main_class.val # in_merge.main_class
    /\ in_partial.id # in_merge.id
    /\ in_partial.time # in_merge.time
    /\ in_partial.type_ # in_merge.type_
    /\ in_merge.minecraft_arguments.some
    /\ merged.val.main_class = in_partial.main_class.val
    /\ merged.val.minecraft_arguments = in_merge.minecraft_arguments

\* ---------------------------------------------------------------------
\* Branding and the shape of the retry loop.

AlreadySet == Some(Err(BrandingAlreadySet))

\* A step of any thread, seen from BRANDING: a value it holds stays; the
\* count of Ok results grows only on a set of the empty cell; a set that
\* finds a value answers BrandingAlreadySet.
C15_Step ==
    /\ BRANDING.some => BRANDING' = BRANDING
    /\ set_oks' # set_oks =>
          /\ ~BRANDING.some
          /\ BRANDING'.some
          /\ set_oks' = set_oks + 1
          /\ last_set' = Some([ok |-> TRUE])
    /\ (last_set' # last_set /\ BRANDING.some) =>
          /\ last_set' = AlreadySet
          /\ BRANDING' = BRANDING
          /\ set_oks' = set_oks

C15_State ==
    /\ set_oks <= 1
    /\ set_oks = 1 => BRANDING.some
    /\ last_set.some => BRANDING.some
    /\ last_set \in {None, Some([ok |-> TRUE]), AlreadySet}

\* C15: BRANDING is write-once under any interleaving of set_branding and
\* download_file: a value it holds never changes, a set_branding that finds
\* a value returns BrandingAlreadySet and leaves it, and at most one
\* set_branding returns Ok.
C15_BrandingWriteOnce == [](C15_State) /\ [][C15_Step]_vars

C15_Witness ==
    /\ pc \in {"send", "body", "hash"}
    /\ BRANDING = Some(Branding_default)
    /\ last_set = AlreadySet
    /\ set_oks = 0

\* C16: a download_file call leaves BRANDING as it found it, whether set
\* or not (no step of a fetch changes the cell).
C16_FetchLeavesBranding == [][BRANDING' = BRANDING]_vars

\* C17: a failure of the hashing task ends download_file at once: it is the
\* last outcome of the call, the call has returned the task error, and it
\* made one request per attempt up to that one and none after.
C17_TaskFailureIsFatal ==
    /\ \A i \in 1..Len(outcomes) : outcomes[i] = "task" => i = Len(outcomes)
    /\ (outcomes # <<>> /\ outcomes[Len(outcomes)] = "task") =>
          /\ pc \notin {"send", "body", "hash"}
          /\ attempt = Len(outcomes)
          /\ fn = "download_file" =>
                /\ pc = "done"
                /\ result.some
                /\ ~result.val.ok
                /\ result.val.err.kind = "TaskError"
                /\ requests = Repeated(url, attempt)
          /\ fn = "download_file_mirrors" =>
                /\ mirror_results # <<>>
                /\ ~mirror_results[Len(mirror_results)].ok
                /\ mirror_results[Len(mirror_results)].err.kind = "TaskError"

C17_Witness ==
    /\ Returned
    /\ outcomes = <<"mismatch", "task">>
    /\ result = Some(Err(TaskError))
    /\ Len(requests) = 2

InLoop == pc \in {"send", "body", "hash"}

\* C18: the loops end by a return: no unreachable!() is reached, a failed
\* attempt of any kind is followed by the next attempt, there are at most 4
\* attempts and requests per call of download_file, and the 4th attempt
\* returns.
C18_LoopReturns ==
    /\ pc # "panic"
    /\ attempt <= MAX_ATTEMPTS
    /\ Len(outcomes) <= MAX_ATTEMPTS
    /\ InLoop =>
          /\ attempt = Len(outcomes) + 1
          /\ \A i \in 1..Len(outcomes) : outcomes[i] \in Transient
    /\ Len(outcomes) = MAX_ATTEMPTS => ~InLoop
    /\ fn = "download_file" =>
          /\ Len(requests) <= MAX_ATTEMPTS
          /\ InLoop => Len(requests) \in {attempt - 1, attempt}
          /\ (Returned /\ outcomes # <<>>) => Len(requests) = Len(outcomes)
    /\ fn = "download_file_mirrors" =>
          /\ Len(requests) <= MAX_ATTEMPTS * (index + 1)
          /\ Len(mirror_results) <= Len(mirrors)
          /\ \A m \in Mirrors, b \in Bases :
                Cardinality({i \in 1..Len(requests) : requests[i] = MirrorUrl(m, b)})
                   <= MAX_ATTEMPTS * Cardinality({j \in 1..Len(mirrors) : mirrors[j] = m})

C18_Witness ==
    /\ Returned
    /\ outcomes = <<"send", "bytes", "mismatch", "ok">>
    /\ Len(requests) = MAX_ATTEMPTS
    /\ result.val.ok

====
